---- MODULE Spec2Model ----
(***************************************************************************)
(* The J-Quants fetch engine of jquants_pipeline/client.py as a state      *)
(* machine: JQuantsClient._get (retry / backoff / error classification),   *)
(* _get_all_pages (cursor pagination), get_stock_prices (per-day           *)
(* extraction with the consecutive-empty early stop) and get_listed_info,  *)
(* and their caller, jquants_pipeline/cli.py: run_extraction with          *)
(* JQuantsClient.from_env, extract_listed_info, extract_stock_prices,      *)
(* ExtractionConfig and DuckDBStorage.save.                                *)
(*                                                                         *)
(* One step of the machine is one HTTP exchange (session.get at            *)
(* client.py:209 and the response to it) together with all the code that   *)
(* runs between that response and the next session.get, or the end of the  *)
(* public call.  The server's answer is the only nondeterminism.           *)
(*                                                                         *)
(* Dates are day ordinals (date + timedelta(days=1) is +1); durations are  *)
(* tenths of a second, so that request_interval = 0.5 s is an integer.     *)
(* A record delivered by the server is <<date, page, index>>, date 0 being *)
(* the master listing, so every record is distinguishable from every other.*)
(***************************************************************************)
EXTENDS Integers, Sequences, FiniteSets

VARIABLES
    max_retries,        \* RetryConfig.max_retries of this client
    pc,                 \* "idle" | "get" (a session.get is next) | "returned" | "raised"
    op,                 \* the public call in progress: "none" | "listed" | "prices"
    endpoint,           \* the endpoint argument of _get_all_pages
    start_date,         \* get_stock_prices argument
    end_date,           \* get_stock_prices argument
    current_date,       \* the loop variable of get_stock_prices
    all_data,           \* get_stock_prices local
    consecutive_empty,  \* get_stock_prices local
    caller_params,      \* the dict the caller passed to _get_all_pages
    params,             \* _get_all_pages local (its own copy of the dict)
    result,             \* _get_all_pages local: the last dict _get returned
    data,               \* _get_all_pages local: the accumulator
    attempt,            \* _get loop variable
    returned,           \* the records of the DataFrame the public call returned
    exc,                \* the exception that left the public call
    \* ---- observations of the run (what a mock server and a patched sleep record)
    lastStatus,         \* status code of the most recent response, 0 before any
    getExit,            \* how the most recent _get call stands
    callLog,            \* the requests and sleeps of the most recent _get call
    sleptSince,         \* the sleeps performed since the most recent request
    served,             \* the 200 bodies the server sent in the most recent _get_all_pages call
    requested,          \* the dates _get_all_pages was invoked for, in order
    outcomes,           \* what the server made of the last MaxLogged days
    \* ---- cli.py
    phase,              \* run_extraction: "none" (not running) | "listed" | "prices" | "done" | "failed"
    config,             \* the arguments of run_extraction
    environ,            \* os.environ as from_env found it after load_dotenv
    storage,            \* the tables of the DuckDB file: table name -> rows
    found,              \* the tables as they were before the first save
    saves               \* the calls of DuckDBStorage.save, in order

clientVars ==
    <<max_retries, pc, op, endpoint, start_date, end_date, current_date,
      all_data, consecutive_empty, caller_params, params, result, data, attempt,
      returned, exc, lastStatus, getExit, callLog, sleptSince, served, requested,
      outcomes>>

cliVars == <<phase, config, environ, storage, found, saves>>

vars == <<clientVars, cliVars>>

----------------------------------------------------------------------------
(* Bounds of the model *)

MaxRetries == 3     \* max_retries ranges over 1..MaxRetries
MaxStart == 2       \* start_date ranges over 1..MaxStart
MaxEnd == 11        \* end_date ranges over 0..MaxEnd
MaxPages == 3       \* the master listing omits the cursor on page MaxPages at the latest
MaxRecs == 2        \* records on one page of the master listing
MaxLogged == 3      \* days of outcomes kept in the observation log
MaxDays == 1        \* --days ranges over -1..MaxDays
MaxWeeksAgo == 1    \* --weeks-ago ranges over 0..MaxWeeksAgo
MaxRows == 2        \* rows of a table, and of a DataFrame, in a direct call of save

(* Program constants *)

retry_delay == 30           \* RetryConfig.retry_delay = 3.0 s
request_interval == 5       \* RetryConfig.request_interval = 0.5 s
EmptyThreshold == 10        \* "if consecutive_empty >= 10"
DefaultMaxRetries == 3      \* RetryConfig.max_retries, the default from_env uses
DaysPerWeek == 7            \* timedelta(weeks=1)
Today == 4                  \* date.today() when the run starts

Statuses == {200, 401, 403, 404, 429, 500}

NoException == [type |-> "none", status |-> 0]
NoBody == [data |-> <<>>]
NoConfig == [listed |-> FALSE, prices |-> FALSE, days |-> 0, weeks_ago |-> 0]

----------------------------------------------------------------------------
(* The server *)

Recs(d, p, n) == [i \in 1..n |-> <<d, p, i>>]

Body(d, p, n, more) ==
    IF more THEN [data |-> Recs(d, p, n), pagination_key |-> p]
            ELSE [data |-> Recs(d, p, n)]

\* The page a request asks for: the cursor sent with page p is p, and a request
\* that echoes cursor p gets page p + 1; a request without cursor gets page 1.
PageOf(ps) == IF "pagination_key" \in DOMAIN ps THEN ps.pagination_key + 1 ELSE 1

\* The daily bars the server holds: the numbers of records on the pages of a date.
BarsPages(d) ==
    CASE d = 1 -> <<2, 2, 1>>
      [] d = 2 -> <<1>>
      [] d = 4 -> <<0, 2>>
      [] OTHER -> <<0>>

\* The bodies the server may send with status 200 for a request.
Bodies(ep, ps) ==
    LET p == PageOf(ps) IN
    IF ep = "/equities/master"
    THEN { Body(0, p, n, more) :
             n \in 0..MaxRecs, more \in IF p < MaxPages THEN BOOLEAN ELSE {FALSE} }
    ELSE LET pages == BarsPages(ps.date) IN
         IF p <= Len(pages) THEN { Body(ps.date, p, pages[p], p < Len(pages)) }
                            ELSE { Body(ps.date, p, 0, FALSE) }

----------------------------------------------------------------------------
(* Pure pieces of the code *)

\* faulty variant: 403 is not taken for an authentication failure
IsAuthFailure_401Only(status) == status = 401

\* client.py:212
IsAuthFailure(status) == status \in {401, 403}

\* faulty variant: server errors are retried like rate limiting
IsRateLimited_Or5xx(status) == status = 429 \/ status >= 500

\* client.py:221
IsRateLimited(status) == status = 429

\* requests.Response.raise_for_status: raises HTTPError for 4xx and 5xx
RaisesForStatus(status) == status >= 400 /\ status < 600

\* faulty variant: constant instead of linear backoff
BackoffWait_Flat(att) == retry_delay

\* faulty variant: the first wait is zero
BackoffWait_FromZero(att) == retry_delay * att

\* client.py:222
BackoffWait(att) == retry_delay * (att + 1)

\* faulty variant: one attempt too many
HasNextAttempt_Extra(att, maxr) == att < maxr

\* client.py:208: range(config.max_retries) has another attempt after att
HasNextAttempt(att, maxr) == att + 1 < maxr

\* faulty variants: a bare except, and no except at all
Absorbed_Any(type) == TRUE
Absorbed_None(type) == FALSE

\* client.py:183: the except clause catches requests.HTTPError only
Absorbed(type) == type = "HTTPError"

\* faulty variant: the stop comes one day late
ShouldStop_Late(cons) == cons > EmptyThreshold

\* client.py:190
ShouldStop(cons) == cons >= EmptyThreshold

\* faulty variant: the range runs one day past its end
InDateRange_OnePast(cur, end) == cur <= end + 1

\* client.py:259: the generator's loop condition
InDateRange(cur, end) == cur <= end

\* faulty variant: _get_all_pages works on the caller's dict
SharesCallerDict_Alias == TRUE

\* client.py:236: dict(params) is a new dict, never the caller's
SharesCallerDict == FALSE

\* faulty variant: the first cursor is kept for every later page
WithCursor_KeepFirst(ps, res) ==
    IF "pagination_key" \in DOMAIN ps THEN ps
    ELSE [f \in DOMAIN ps \cup {"pagination_key"} |->
             IF f = "pagination_key" THEN res.pagination_key ELSE ps[f]]

\* client.py:238, 243: result.get("data", [])
DataOf(res) == IF "data" \in DOMAIN res THEN res.data ELSE <<>>

\* client.py:240
HasCursor(res) == "pagination_key" \in DOMAIN res

\* client.py:241: params["pagination_key"] = result["pagination_key"]
WithCursor(ps, res) ==
    [f \in DOMAIN ps \cup {"pagination_key"} |->
        IF f = "pagination_key" THEN res.pagination_key ELSE ps[f]]

\* faulty variant: each page replaces the accumulator
Accumulate_Replace(acc, res, first) == DataOf(res)

\* client.py:238, 243: data after the page in res arrived (first: the first page)
Accumulate(acc, res, first) == IF first THEN DataOf(res) ELSE acc \o DataOf(res)

\* client.py:173-179: the counter after a day whose pages were all received
CounterAfter(cons, dayData) == IF dayData # <<>> THEN 0 ELSE cons + 1

\* faulty variant: a failed day is not counted
CounterAfterError_Same(cons) == cons

\* client.py:184: the counter after a day that failed with an HTTPError
CounterAfterError(cons) == cons + 1

\* faulty variant: the pages received before the failure are kept
AfterFailedDay_Salvaged(all, partial) == all \o partial

\* client.py:183-187: the handler leaves all_data alone, whatever the pages
\* _get_all_pages had received in its own accumulator
AfterFailedDay(all, partial) == all

\* faulty variant: a later day's records go in front
Extend_InFront(all, dayData) == dayData \o all

\* client.py:174: all_data.extend(data)
Extend(all, dayData) == all \o dayData

----------------------------------------------------------------------------
(* What the run's observers record *)

EmptyDict == [f \in {} |-> 0]

Request(att) == [ev |-> "request", n |-> att]
Sleep(secs) == [ev |-> "sleep", n |-> secs]
Backoff(secs) == [kind |-> "backoff", secs |-> secs]
Pace(secs) == [kind |-> "pace", secs |-> secs]

RECURSIVE Flatten(_)
Flatten(bodies) ==
    IF bodies = <<>> THEN <<>>
    ELSE DataOf(Head(bodies)) \o Flatten(Tail(bodies))

\* the last MaxLogged entries of a log
Logged(log) ==
    IF Len(log) <= MaxLogged THEN log
    ELSE SubSeq(log, Len(log) - MaxLogged + 1, Len(log))

\* the request about to be sent is the first one of a _get call
FirstOfCall == attempt = 0
\* ... and of a _get_all_pages call
FirstOfPaging == attempt = 0 /\ ~("pagination_key" \in DOMAIN params)

\* faulty variant: no pause between days
AfterPause_Skipped(slept) == slept

\* client.py:195: time.sleep(request_interval) at the end of the loop body
AfterPause(slept) == Append(slept, Pace(request_interval))

LogWithRequest == Append(IF FirstOfCall THEN <<>> ELSE callLog, Request(attempt))
ServedSoFar == IF FirstOfPaging THEN <<>> ELSE served

DayReceived(d, bodies) ==
    [date |-> d,
     kind |-> IF Flatten(bodies) # <<>> THEN "records" ELSE "empty",
     n |-> Len(Flatten(bodies))]
DayFailed(d) == [date |-> d, kind |-> "failed", n |-> 0]

----------------------------------------------------------------------------
(* The initial state: a client was constructed, no call was made *)

Init ==
    /\ max_retries \in 1..MaxRetries
    /\ pc = "idle"
    /\ op = "none"
    /\ endpoint = ""
    /\ start_date = 0
    /\ end_date = 0
    /\ current_date = 0
    /\ all_data = <<>>
    /\ consecutive_empty = 0
    /\ caller_params = EmptyDict
    /\ params = EmptyDict
    /\ result = NoBody
    /\ data = <<>>
    /\ attempt = 0
    /\ returned = <<>>
    /\ exc = NoException
    /\ lastStatus = 0
    /\ getExit = "none"
    /\ callLog = <<>>
    /\ sleptSince = <<>>
    /\ served = <<>>
    /\ requested = <<>>
    /\ outcomes = <<>>
    /\ phase = "none"
    /\ config = NoConfig
    /\ environ = EmptyDict
    /\ storage = EmptyDict
    /\ found = EmptyDict
    /\ saves = <<>>

----------------------------------------------------------------------------
(* Control flow shared by the steps *)

\* the public call in progress ends: it returns (p = "returned") or raises
Finish(p, r, e) == pc' = p /\ returned' = r /\ exc' = e

\* client.py:166-171: the loop body starts for date d, up to session.get
StartDay(d) ==
    /\ current_date' = d
    /\ caller_params' = [date |-> d]
    /\ params' = [date |-> d]
    /\ attempt' = 0
    /\ requested' = Append(requested, d)
    /\ pc' = "get"
    /\ UNCHANGED <<returned, exc>>

\* client.py:189-197 and 166: after the day's try statement: the early stop, the
\* pacing sleep, the generator's next date, and the return
DayEnd(newAll, newCons, out, slept) ==
    /\ all_data' = newAll
    /\ consecutive_empty' = newCons
    /\ outcomes' = Logged(Append(outcomes, out))
    /\ IF ShouldStop(newCons)
       THEN /\ sleptSince' = slept
            /\ Finish("returned", newAll, exc)
            /\ UNCHANGED <<current_date, caller_params, params, attempt, requested>>
       ELSE /\ sleptSince' = AfterPause(slept)
            /\ IF InDateRange(current_date + 1, end_date)
               THEN StartDay(current_date + 1)
               ELSE /\ Finish("returned", newAll, exc)
                    /\ UNCHANGED <<current_date, caller_params, params, attempt, requested>>

\* an exception of the given type leaves _get and so _get_all_pages:
\* client.py:183-187 in get_stock_prices, no handler in get_listed_info
RaiseFromPages(type, status, slept) ==
    IF op = "prices" /\ Absorbed(type)
    THEN DayEnd(AfterFailedDay(all_data, Flatten(ServedSoFar)),
                CounterAfterError(consecutive_empty),
                DayFailed(current_date), slept)
    ELSE /\ Finish("raised", returned, [type |-> type, status |-> status])
         /\ sleptSince' = slept
         /\ UNCHANGED <<current_date, caller_params, params, attempt, requested, all_data,
                        consecutive_empty, outcomes>>

\* client.py:245 and its callers: _get_all_pages returns dayData
ReturnFromPages(dayData, bodies) ==
    IF op = "listed"
    THEN \* client.py:140-141
         /\ Finish("returned", dayData, exc)
         /\ sleptSince' = <<>>
         /\ UNCHANGED <<current_date, caller_params, params, attempt, requested, all_data,
                        consecutive_empty, outcomes>>
    ELSE \* client.py:173-181
         DayEnd(IF dayData # <<>> THEN Extend(all_data, dayData) ELSE all_data,
                CounterAfter(consecutive_empty, dayData),
                DayReceived(current_date, bodies), <<>>)

\* client.py:237-245: _get returned the dict res
ReturnFromGet(res, bodies) ==
    LET first == ~("pagination_key" \in DOMAIN params)
        newData == Accumulate(data, res, first)
    IN  /\ result' = res
        /\ data' = newData
        /\ getExit' = "return"
        /\ IF HasCursor(res)
           THEN /\ params' = WithCursor(params, res)
                /\ caller_params' = IF SharesCallerDict
                                     THEN WithCursor(params, res)
                                     ELSE caller_params
                /\ attempt' = 0
                /\ sleptSince' = <<>>
                /\ UNCHANGED <<pc, returned, exc, current_date, requested,
                               all_data, consecutive_empty, outcomes>>
           ELSE ReturnFromPages(newData, bodies)

----------------------------------------------------------------------------
(* The public calls *)

\* client.py:140 up to the first session.get
CallListedInfo ==
    /\ op' = "listed"
    /\ endpoint' = "/equities/master"
    /\ caller_params' = EmptyDict
    /\ params' = EmptyDict
    /\ attempt' = 0
    /\ pc' = "get"
    /\ UNCHANGED <<start_date, end_date, current_date, all_data,
                   consecutive_empty, returned, exc, requested, outcomes>>

\* client.py:163-171 up to the first session.get, or :197 for an empty range
CallStockPrices(s, e) ==
    /\ start_date' = s
    /\ end_date' = e
    /\ op' = "prices"
    /\ endpoint' = "/equities/bars/daily"
    /\ all_data' = <<>>
    /\ consecutive_empty' = 0
    /\ UNCHANGED outcomes
    /\ IF InDateRange(s, e)
       THEN StartDay(s)
       ELSE /\ Finish("returned", <<>>, exc)
            /\ UNCHANGED <<current_date, caller_params, params, attempt, requested>>

\* a call made on a client constructed with JQuantsClient(api_key, retry_config)
get_listed_info ==
    /\ pc = "idle"
    /\ CallListedInfo
    /\ UNCHANGED <<max_retries, result, data, lastStatus, getExit, callLog,
                   sleptSince, served>>
    /\ UNCHANGED cliVars

get_stock_prices ==
    /\ pc = "idle"
    /\ \E s \in 1..MaxStart, e \in 0..MaxEnd : CallStockPrices(s, e)
    /\ UNCHANGED <<max_retries, result, data, lastStatus, getExit, callLog,
                   sleptSince, served>>
    /\ UNCHANGED cliVars

----------------------------------------------------------------------------
(* One HTTP exchange, by the branch of _get the response takes *)

\* client.py:209-218: 401 / 403
get_auth_failure ==
    /\ pc = "get"
    /\ \E status \in Statuses :
        /\ IsAuthFailure(status)
        /\ lastStatus' = status
        /\ callLog' = LogWithRequest
        /\ served' = ServedSoFar
        /\ getExit' = "AuthenticationError"
        /\ RaiseFromPages("AuthenticationError", status, <<>>)
    /\ UNCHANGED <<max_retries, op, endpoint, start_date, end_date, result, data>>
    /\ UNCHANGED cliVars

\* client.py:209, 221-225 and, after the last attempt, 231-232
get_rate_limited ==
    /\ pc = "get"
    /\ \E status \in Statuses :
        /\ ~IsAuthFailure(status)
        /\ IsRateLimited(status)
        /\ lastStatus' = status
        /\ callLog' = Append(LogWithRequest, Sleep(BackoffWait(attempt)))
        /\ served' = ServedSoFar
        /\ IF HasNextAttempt(attempt, max_retries)
           THEN /\ attempt' = attempt + 1
                /\ getExit' = "retrying"
                /\ sleptSince' = <<Backoff(BackoffWait(attempt))>>
                /\ UNCHANGED <<pc, returned, exc, current_date, caller_params,
                               params, requested, all_data, consecutive_empty,
                               outcomes, result, data>>
           ELSE IF RaisesForStatus(status)
                THEN /\ getExit' = "HTTPError"
                     /\ RaiseFromPages("HTTPError", status,
                                       <<Backoff(BackoffWait(attempt))>>)
                     /\ UNCHANGED <<result, data>>
                ELSE ReturnFromGet(EmptyDict, ServedSoFar)
    /\ UNCHANGED <<max_retries, op, endpoint, start_date, end_date>>
    /\ UNCHANGED cliVars

\* client.py:209, 227: any other status raise_for_status raises for
get_http_error ==
    /\ pc = "get"
    /\ \E status \in Statuses :
        /\ ~IsAuthFailure(status)
        /\ ~IsRateLimited(status)
        /\ RaisesForStatus(status)
        /\ lastStatus' = status
        /\ callLog' = LogWithRequest
        /\ served' = ServedSoFar
        /\ getExit' = "HTTPError"
        /\ RaiseFromPages("HTTPError", status, <<>>)
    /\ UNCHANGED <<max_retries, op, endpoint, start_date, end_date, result, data>>
    /\ UNCHANGED cliVars

\* client.py:209, 227-228: a success status, and _get_all_pages on from there
get_ok ==
    /\ pc = "get"
    /\ \E status \in Statuses :
        /\ ~IsAuthFailure(status)
        /\ ~IsRateLimited(status)
        /\ ~RaisesForStatus(status)
        /\ \E body \in Bodies(endpoint, params) :
            /\ lastStatus' = status
            /\ callLog' = LogWithRequest
            /\ served' = Append(ServedSoFar, body)
            /\ ReturnFromGet(body, Append(ServedSoFar, body))
    /\ UNCHANGED <<max_retries, op, endpoint, start_date, end_date>>
    /\ UNCHANGED cliVars

----------------------------------------------------------------------------
(* cli.py: the storage *)

TableNames == {"listed_info", "stock_prices"}

\* rows a table held before the run; page 0 tells them from anything fetched
OldRows(n) == [i \in 1..n |-> <<-1, 0, i>>]

\* faulty variant: replace mode appends as well
SaveInto_AlwaysAppend(store, t, rows, replace) ==
    [x \in DOMAIN store \cup {t} |->
        IF x = t
        THEN (IF t \in DOMAIN store THEN store[t] ELSE <<>>) \o rows
        ELSE store[x]]

\* cli.py:105-113: DROP TABLE IF EXISTS and CREATE TABLE AS SELECT, or
\* CREATE TABLE IF NOT EXISTS (empty) and INSERT
SaveInto(store, t, rows, replace) ==
    [x \in DOMAIN store \cup {t} |->
        IF x = t
        THEN IF replace THEN rows
             ELSE (IF t \in DOMAIN store THEN store[t] ELSE <<>>) \o rows
        ELSE store[x]]

\* cli.py:115: SELECT COUNT(*)
RowCount(store, t) == Len(store[t])

\* cli.py:81-117: the record of one call of save and what it returned
SaveCall(store, t, rows, replace) ==
    [table |-> t, rows |-> rows, replace |-> replace,
     count |-> RowCount(SaveInto(store, t, rows, replace), t)]

\* cli.py:87: the default of the replace parameter
DefaultReplace == TRUE

\* cli.py:81-117 on the current storage
Save(t, rows, replace) ==
    /\ storage' = SaveInto(storage, t, rows, replace)
    /\ saves' = Append(saves, SaveCall(storage, t, rows, replace))

\* cli.py:106: DROP TABLE IF EXISTS
Dropped(store, t) == [x \in DOMAIN store \ {t} |-> store[x]]

\* cli.py:106-107 when duckdb refuses the frame: the table is dropped, the
\* statement that would create it raises, and save returns nothing
SaveRefused(t, rows, replace) ==
    /\ storage' = (IF replace THEN Dropped(storage, t) ELSE storage)
    /\ saves' = Append(saves, [table |-> t, rows |-> rows, replace |-> replace,
                                 count |-> -1])

----------------------------------------------------------------------------
(* cli.py: the window of ExtractionConfig *)

\* cli.py:57: end_date, for the value date.today() has when it is read
EndDate(today, cfg) == today - DaysPerWeek * cfg.weeks_ago

\* cli.py:52: start_date, which reads end_date, and so date.today(), itself
StartDate(today, cfg) == EndDate(today, cfg) - cfg.days

\* the values date.today() may have in the two reads of cli.py:141, the one for
\* config.start_date first: the date may change between them
TodayReads == {<<Today, Today>>, <<Today, Today + 1>>}

----------------------------------------------------------------------------
(* cli.py and client.py:97-120: the run *)

EnvVar == "JQUANTS_API_KEY"

\* what load_dotenv and the process environment may hold
Environs == {EmptyDict, [JQUANTS_API_KEY |-> ""], [JQUANTS_API_KEY |-> "key"]}

\* faulty variant: only an absent variable is refused
KeyMissing_AbsentOnly(env) == ~(EnvVar \in DOMAIN env)

\* client.py:111-113: api_key = os.environ.get(env_var); if not api_key
KeyMissing(env) == ~(EnvVar \in DOMAIN env) \/ env[EnvVar] = ""

\* the database file a run finds: an earlier run left daily bars in it, and the
\* listing has not been stored yet
FoundStore == [stock_prices |-> OldRows(1)]

\* faulty variant: an exception of the client is swallowed
Raised_Never(p) == FALSE

\* the client call ended by raising: the exception passes through extract_* and
\* run_extraction, neither of which has a handler
Raised(p) == p = "raised"

\* cli.py:129-130: pd.DataFrame([]) made of no record has no column, and this
\* code does not settle whether duckdb makes a table of such a frame
HasNoColumns(rows) == rows = <<>>

\* faulty variant: the empty check is left out
IsEmptyFrame_Never(rows) == FALSE

\* cli.py:143: df.empty for pd.DataFrame(all_data)
IsEmptyFrame(rows) == rows = <<>>

\* the observations start again with a public call of the client
ForgetLastCall ==
    /\ result' = NoBody
    /\ data' = <<>>
    /\ lastStatus' = 0
    /\ getExit' = "none"
    /\ callLog' = <<>>
    /\ sleptSince' = <<>>
    /\ served' = <<>>

\* cli.py:140-141 up to the first session.get of get_stock_prices
BeginStockPrices ==
    /\ \E t \in TodayReads :
          CallStockPrices(StartDate(t[1], config'), EndDate(t[2], config'))
    /\ ForgetLastCall

\* cli.py:181-184: run_extraction ends, leaving what the last call of the
\* client left; a run that was asked for nothing returns without any call
EndRun(ph) ==
    /\ phase' = ph
    /\ pc' = (IF pc = "idle" THEN "returned" ELSE pc)
    /\ UNCHANGED <<op, endpoint, start_date, end_date, current_date, all_data,
                   consecutive_empty, caller_params, params, attempt, returned,
                   exc, requested, outcomes, result, data, lastStatus, getExit,
                   callLog, sleptSince, served>>

\* cli.py:165-179 with client.py:110-120, up to the first session.get
run_extraction ==
    /\ pc = "idle"
    /\ \E env \in Environs,
          listed \in BOOLEAN, prices \in BOOLEAN,
          days \in -1..MaxDays, weeks \in 0..MaxWeeksAgo :
        /\ environ' = env
        /\ config' = [listed |-> listed, prices |-> prices,
                      days |-> days, weeks_ago |-> weeks]
        /\ storage' = FoundStore
        /\ found' = FoundStore
        /\ saves' = <<>>
        /\ IF KeyMissing(env)
           THEN \* client.py:113-118: ValueError leaves from_env and run_extraction
                /\ phase' = "failed"
                /\ pc' = "raised"
                /\ exc' = [type |-> "ValueError", status |-> 0]
                /\ UNCHANGED <<max_retries, op, endpoint, start_date, end_date,
                               current_date, all_data, consecutive_empty,
                               caller_params, params, attempt, returned,
                               requested, outcomes, result, data, lastStatus,
                               getExit, callLog, sleptSince, served>>
           ELSE \* client.py:120: cls(api_key=api_key), the default RetryConfig
                /\ max_retries' = DefaultMaxRetries
                /\ IF listed
                   THEN /\ phase' = "listed"
                        /\ CallListedInfo
                        /\ UNCHANGED <<result, data, lastStatus, getExit,
                                       callLog, sleptSince, served>>
                   ELSE IF prices
                   THEN /\ phase' = "prices"
                        /\ BeginStockPrices
                   ELSE EndRun("done")

\* cli.py:128-131 after get_listed_info, and run_extraction on from there
\* (cli.py:178-184), up to the first session.get of get_stock_prices
extract_listed_info ==
    /\ phase = "listed"
    /\ pc \in {"returned", "raised"}
    /\ UNCHANGED <<max_retries, environ, found, config>>
    /\ IF Raised(pc)
       THEN EndRun("failed") /\ UNCHANGED <<storage, saves>>
       ELSE \/ /\ Save("listed_info", returned, DefaultReplace)
               /\ IF config.prices
                  THEN /\ phase' = "prices"
                       /\ BeginStockPrices
                  ELSE EndRun("done")
            \/ /\ HasNoColumns(returned)
               /\ SaveRefused("listed_info", returned, DefaultReplace)
               /\ EndRun("failed")

\* cli.py:141-149 after get_stock_prices, and cli.py:181-184
extract_stock_prices ==
    /\ phase = "prices"
    /\ pc \in {"returned", "raised"}
    /\ UNCHANGED <<max_retries, environ, found, config>>
    /\ IF Raised(pc)
       THEN EndRun("failed") /\ UNCHANGED <<storage, saves>>
       ELSE /\ EndRun("done")
            /\ IF IsEmptyFrame(returned)
               THEN UNCHANGED <<storage, saves>>
               ELSE Save("stock_prices", returned, DefaultReplace)

\* cli.py:81-117: a call of DuckDBStorage.save on its own
save ==
    /\ pc = "idle"
    /\ \E t \in TableNames, p \in -1..MaxRows, n \in 0..MaxRows, replace \in BOOLEAN :
        /\ found' = (IF p < 0 THEN EmptyDict ELSE [x \in {t} |-> OldRows(p)])
        /\ storage' = SaveInto(found', t, Recs(0, 1, n), replace)
        /\ saves' = <<SaveCall(found', t, Recs(0, 1, n), replace)>>
    /\ op' = "save"
    /\ pc' = "returned"
    /\ UNCHANGED <<max_retries, endpoint, start_date, end_date, current_date,
                   all_data, consecutive_empty, caller_params, params, attempt,
                   returned, exc, requested, outcomes, result, data, lastStatus,
                   getExit, callLog, sleptSince, served, phase, config, environ>>

\* one HTTP exchange
Exchange == get_auth_failure \/ get_rate_limited \/ get_http_error \/ get_ok

Next ==
    \/ get_listed_info
    \/ get_stock_prices
    \/ get_auth_failure
    \/ get_rate_limited
    \/ get_http_error
    \/ get_ok
    \/ run_extraction
    \/ extract_listed_info
    \/ extract_stock_prices
    \/ save

Spec == Init /\ [][Next]_vars

----------------------------------------------------------------------------
(* Vocabulary of the properties *)

Last(seq) == seq[Len(seq)]

AuthStatuses == {401, 403}
OtherErrorStatuses == {404, 500}

\* a step that ends a day of get_stock_prices, seen from the log of outcomes
DayEnds == outcomes' # outcomes

\* the dates start..end in ascending order
Window(s, e) == [i \in 1..(IF e >= s THEN e - s + 1 ELSE 0) |-> s + i - 1]

\* the response the step receives makes the day's fetch fail with an HTTPError:
\* a 404 or 500 on any attempt, or a 429 on the last attempt
DayFails ==
    /\ op = "prices"
    /\ pc = "get"
    /\ \/ lastStatus' \in OtherErrorStatuses
       \/ lastStatus' = 429 /\ attempt = max_retries - 1

\* the records the server holds for date 1
DayOneRecords == Recs(1, 1, 2) \o Recs(1, 2, 2) \o Recs(1, 3, 1)

----------------------------------------------------------------------------
(* C1: in get_stock_prices the consecutive-empty counter is 0 right after a *)
(* day that delivered at least one record and grows by exactly 1 on every   *)
(* empty or failed day; the loop stops on the first day the counter reaches *)
(* 10 (no request is made while the counter is 10, and the counter never    *)
(* exceeds 10), and a call that returned with the counter below 10 has      *)
(* requested every day of its window.                                       *)

C1_CounterStep ==
    DayEnds =>
        /\ Last(outcomes').kind = "records" => consecutive_empty' = 0
        /\ Last(outcomes').kind \in {"empty", "failed"} =>
               consecutive_empty' = consecutive_empty + 1

C1_Halting ==
    op = "prices" =>
        /\ consecutive_empty \in 0..EmptyThreshold
        /\ pc = "get" => consecutive_empty < EmptyThreshold
        /\ (pc = "returned" /\ consecutive_empty < EmptyThreshold) =>
               requested = Window(start_date, end_date)
        /\ (pc = "returned" /\ consecutive_empty = EmptyThreshold) =>
               /\ Last(requested) = current_date
               /\ Last(outcomes).date = current_date
               /\ Last(outcomes).kind # "records"

C1_ConsecutiveEmptyStop == [](C1_Halting) /\ [][C1_CounterStep]_vars

\* ten failed days on days 1-10 of the window 1..11: day 11 was never requested
C1_Witness ==
    /\ op = "prices" /\ pc = "returned"
    /\ start_date = 1 /\ end_date = 11
    /\ consecutive_empty = EmptyThreshold
    /\ requested = Window(1, 10)
    /\ all_data = <<>>
    /\ \A i \in 1..Len(outcomes) : outcomes[i].kind = "failed"

----------------------------------------------------------------------------
(* C2: an HTTPError on a day of get_stock_prices (a 404 or 500, or a 429 on *)
(* the last attempt) is absorbed: no HTTPError leaves the call, the day     *)
(* adds no record and counts as an empty day, and the next day is fetched   *)
(* while the counter is below 10.  For the window of days 1..3 with the     *)
(* outcomes (5 records, HTTPError, 0 records) the call returns exactly day  *)
(* 1's five records with the counter at 2 and all three days requested.     *)

C2_AbsorbStep ==
    DayFails =>
        /\ pc' # "raised"
        /\ all_data' = all_data
        /\ consecutive_empty' = consecutive_empty + 1
        /\ Last(outcomes') = DayFailed(current_date)
        /\ (consecutive_empty' < EmptyThreshold /\ current_date < end_date) =>
               /\ pc' = "get"
               /\ current_date' = current_date + 1
               /\ requested' = Append(requested, current_date + 1)

C2_Scenario ==
    /\ op = "prices" /\ pc = "returned"
    /\ start_date = 1 /\ end_date = 3
    /\ Len(outcomes) = 3
    /\ outcomes[1] = [date |-> 1, kind |-> "records", n |-> 5]
    /\ outcomes[2] = DayFailed(2)
    /\ outcomes[3] = [date |-> 3, kind |-> "empty", n |-> 0]

C2_State ==
    /\ op = "prices" => exc.type # "HTTPError"
    /\ C2_Scenario =>
        /\ returned = DayOneRecords
        /\ Len(returned) = 5
        /\ consecutive_empty = 2
        /\ requested = <<1, 2, 3>>

C2_HTTPErrorAbsorbed == [](C2_State) /\ [][C2_AbsorbStep]_vars

C2_Witness == C2_Scenario /\ lastStatus = 200 /\ exc = NoException

----------------------------------------------------------------------------
(* C3: a 401 or 403 answer during get_stock_prices leaves the call at once  *)
(* as an AuthenticationError: the call is in its raised state with that     *)
(* exception, no sleep followed the response, and no step of the client (no *)
(* request for the day's remaining pages nor for a later day) follows it.   *)

C3_State ==
    (op = "prices" /\ lastStatus \in AuthStatuses) =>
        /\ pc = "raised"
        /\ exc = [type |-> "AuthenticationError", status |-> lastStatus]
        /\ sleptSince = <<>>
        /\ Last(requested) = current_date

C3_NoStepAfter ==
    (op = "prices" /\ lastStatus \in AuthStatuses) => UNCHANGED clientVars

C3_AuthPropagates == [](C3_State) /\ [][C3_NoStepAfter]_vars

\* 403 on the second page of day 1, with days 2 and 3 still to come
C3_Witness ==
    /\ op = "prices" /\ pc = "raised"
    /\ lastStatus = 403
    /\ start_date = 1 /\ end_date = 3 /\ current_date = 1
    /\ "pagination_key" \in DOMAIN params
    /\ requested = <<1>>

----------------------------------------------------------------------------
(* Vocabulary of the properties about one _get call *)

\* the number of requests in a call log
Requests(log) == Cardinality({i \in 1..Len(log) : log[i].ev = "request"})

\* the log of a call whose first k attempts were answered 429 and slept after,
\* its attempt k + 1 being the last entry
BackoffLog(k) ==
    [i \in 1..(2 * k + 1) |->
        IF i % 2 = 1 THEN Request((i - 1) \div 2)
                     ELSE Sleep(retry_delay * (i \div 2))]

NoBackoffSince == \A i \in 1..Len(sleptSince) : sleptSince[i].kind # "backoff"

----------------------------------------------------------------------------
(* C4: when a _get call is answered 429 on its first k attempts             *)
(* (0 <= k < max_retries) and 200 on attempt k+1, it returns the 200 body   *)
(* after exactly k+1 requests and exactly k backoff sleeps, the i-th of     *)
(* retry_delay * i, each sleep between attempt i and attempt i+1.           *)

C4_BackoffThenSuccess ==
    lastStatus = 200 =>
        /\ getExit = "return"
        /\ result = Last(served)
        /\ \E k \in 0..(max_retries - 1) :
              /\ callLog = BackoffLog(k)
              /\ Requests(callLog) = k + 1
        /\ NoBackoffSince

\* two 429 answers, then 200, with max_retries = 3
C4_Witness ==
    /\ lastStatus = 200
    /\ max_retries = 3
    /\ callLog = <<Request(0), Sleep(retry_delay * 1), Request(1),
                  Sleep(retry_delay * 2), Request(2)>>
    /\ result = Last(served)

----------------------------------------------------------------------------
(* C5: a 401 or 403 answer to _get, on whichever attempt, ends the call at  *)
(* once with an AuthenticationError carrying that status: the request that  *)
(* got it is the last entry of the call's log, no sleep follows it and no   *)
(* further request is possible.  When get_listed_info gets 401 on its very  *)
(* first request, it raises after exactly one request and no retry.         *)

C5_AuthFailsAtOnce ==
    lastStatus \in AuthStatuses =>
        /\ getExit = "AuthenticationError"
        /\ pc = "raised"
        /\ exc = [type |-> "AuthenticationError", status |-> lastStatus]
        /\ Last(callLog) = Request(attempt)
        /\ sleptSince = <<>>
        /\ ~ENABLED Exchange
        /\ (op = "listed" /\ served = <<>> /\ Requests(callLog) = Len(callLog)) =>
               callLog = <<Request(0)>>

\* get_listed_info against an endpoint that answers 401
C5_Witness ==
    /\ op = "listed" /\ pc = "raised"
    /\ lastStatus = 401
    /\ served = <<>>
    /\ callLog = <<Request(0)>>
    /\ max_retries = 3

\* 403 after two 429 answers
C5_WitnessAfterBackoff ==
    /\ lastStatus = 403
    /\ callLog = <<Request(0), Sleep(retry_delay * 1), Request(1),
                  Sleep(retry_delay * 2), Request(2)>>

----------------------------------------------------------------------------
(* C6: one _get call issues at most max_retries requests; when all          *)
(* max_retries attempts are answered 429 the call has issued exactly        *)
(* max_retries requests and fails with the HTTPError of the last 429: it    *)
(* never returns a body, the empty fallback dict included.                  *)

Exhausted == lastStatus = 429 /\ Requests(callLog) >= max_retries

C6_RetryBudget ==
    /\ Requests(callLog) <= max_retries
    /\ getExit = "return" => lastStatus = 200 /\ result # EmptyDict
    /\ Exhausted =>
        /\ Requests(callLog) = max_retries
        /\ getExit = "HTTPError"
        /\ op = "listed" =>
               /\ pc = "raised"
               /\ exc = [type |-> "HTTPError", status |-> 429]
        /\ op = "prices" =>
               /\ pc # "raised"
               /\ Last(outcomes).kind = "failed"

\* get_listed_info answered 429 three times with max_retries = 3
C6_Witness ==
    /\ Exhausted
    /\ max_retries = 3
    /\ op = "listed"
    /\ Requests(callLog) = 3
    /\ exc = [type |-> "HTTPError", status |-> 429]

----------------------------------------------------------------------------
(* C7: a 404 or 500 answer to _get fails the call on that attempt with an   *)
(* HTTPError: the request that got it is the last entry of the call's log   *)
(* (no backoff sleep, no retry), whatever is left of the retry budget, and  *)
(* a request that follows it is the first attempt of a new call.            *)

C7_OtherErrorsNotRetried ==
    lastStatus \in OtherErrorStatuses =>
        /\ getExit = "HTTPError"
        /\ Last(callLog).ev = "request"
        /\ NoBackoffSince
        /\ pc = "get" => attempt = 0
        /\ op = "listed" =>
               /\ pc = "raised"
               /\ exc = [type |-> "HTTPError", status |-> lastStatus]

\* 500 on the first of three possible attempts
C7_Witness ==
    /\ lastStatus = 500
    /\ max_retries = 3
    /\ callLog = <<Request(0)>>
    /\ op = "listed" /\ pc = "raised"

----------------------------------------------------------------------------
(* C8: when the server sends n >= 1 pages, pages 1..n-1 with a cursor and   *)
(* page n without, _get_all_pages holds after every page the concatenation  *)
(* of the records of the pages received so far in page order, asks for the  *)
(* next page exactly while the last page carried a cursor, and returns the  *)
(* concatenation of pages 1..n after n successful _get calls.               *)

\* the i-th body served is page i: its records and its cursor carry number i
IsPage(body, i) ==
    /\ \A j \in 1..Len(DataOf(body)) : DataOf(body)[j][2] = i
    /\ HasCursor(body) => body.pagination_key = i

PagingDone == lastStatus = 200 /\ ~HasCursor(Last(served))

C8_PagesConcatenated ==
    lastStatus = 200 =>
        /\ data = Flatten(served)
        /\ \A i \in 1..Len(served) :
              /\ IsPage(served[i], i)
              /\ i < Len(served) => HasCursor(served[i])
        /\ HasCursor(Last(served)) =>
              /\ pc = "get"
              /\ PageOf(params) = Len(served) + 1
        /\ PagingDone =>
              /\ (pc = "get") => ~("pagination_key" \in DOMAIN params)
              /\ op = "listed" => pc = "returned" /\ returned = Flatten(served)
              /\ op = "prices" =>
                    /\ Len(served) = Len(BarsPages(Last(outcomes).date))
                    /\ Last(outcomes).n = Len(data)

\* three pages of the master listing, two records each
C8_Witness ==
    /\ op = "listed" /\ pc = "returned"
    /\ Len(served) = 3
    /\ returned = Recs(0, 1, 2) \o Recs(0, 2, 2) \o Recs(0, 3, 2)

----------------------------------------------------------------------------
(* C9: get_stock_prices with start_date > end_date returns an empty result  *)
(* without any HTTP request and without any sleep.                          *)

C9_EmptyWindow ==
    (op = "prices" /\ start_date > end_date) =>
        /\ pc = "returned"
        /\ returned = <<>>
        /\ all_data = <<>>
        /\ requested = <<>>
        /\ lastStatus = 0
        /\ callLog = <<>>
        /\ sleptSince = <<>>
        /\ ~ENABLED Exchange

C9_Witness ==
    /\ op = "prices" /\ pc = "returned"
    /\ start_date = 2 /\ end_date = 1

----------------------------------------------------------------------------
(* C10, as claimed: get_stock_prices never fails, whatever the per-day      *)
(* Transport outcomes are.                                                  *)

C10_NeverFails == op = "prices" => pc # "raised"

(* C10, as amended: the only failure that leaves get_stock_prices is the    *)
(* AuthenticationError of a 401 or 403 answer; after any other answer       *)
(* (records, no records, 404, 500, 429 up to the last attempt) the call has *)
(* not raised, and when it returns it returns the records collected, days   *)
(* in ascending order.                                                      *)

DatesAscending(recs) ==
    \A i, j \in 1..Len(recs) : i < j => recs[i][1] <= recs[j][1]

C10_OnlyAuthEscapes ==
    op = "prices" =>
        /\ pc = "raised" =>
              /\ exc.type = "AuthenticationError"
              /\ lastStatus \in AuthStatuses
        /\ lastStatus \notin AuthStatuses => pc \in {"get", "returned"}
        /\ pc = "returned" => returned = all_data /\ DatesAscending(returned)

\* a call that returned records although a day had failed with an HTTPError
C10_Witness ==
    /\ op = "prices" /\ pc = "returned"
    /\ lastStatus \in OtherErrorStatuses
    /\ returned # <<>>
    /\ Last(outcomes).kind = "failed"

----------------------------------------------------------------------------
(* Vocabulary of the properties about a run of the command line *)

InRun == phase # "none"

\* the sleeps of the given kind in a sequence of sleeps
OfKind(slept, kind) == Cardinality({i \in 1..Len(slept) : slept[i].kind = kind})

\* the calls of save for a table
SavesOf(t) == {i \in 1..Len(saves) : saves[i].table = t}

----------------------------------------------------------------------------
(* C11: get_listed_info makes one paginated fetch of the master endpoint    *)
(* and nothing else: it iterates over no date, makes no pacing pause, and   *)
(* absorbs no error, so that an AuthenticationError, an HTTPError or the    *)
(* exhaustion of the retries on 429 leaves it as an exception.  In a run,   *)
(* extract_listed_info then never calls save, the storage is as the run     *)
(* found it, and the run has failed without extracting the prices.          *)

C11_ListedPropagates ==
    op = "listed" =>
        /\ endpoint = "/equities/master"
        /\ caller_params = EmptyDict
        /\ requested = <<>> /\ outcomes = <<>> /\ all_data = <<>>
        /\ OfKind(sleptSince, "pace") = 0
        /\ \A i \in 1..Len(served) : IsPage(served[i], i)
        /\ pc = "returned" => PagingDone /\ returned = Flatten(served)
        /\ lastStatus \in AuthStatuses =>
              pc = "raised" /\ exc.type = "AuthenticationError"
        /\ (lastStatus \in OtherErrorStatuses \/ Exhausted) =>
              pc = "raised" /\ exc = [type |-> "HTTPError", status |-> lastStatus]
        /\ (InRun /\ pc = "raised") =>
              /\ phase \in {"listed", "failed"}
              /\ saves = <<>>
              /\ storage = found
              /\ ~ENABLED Exchange
              /\ phase = "failed" => ~ENABLED Next

\* a run asked for the listing and the prices; the second page of the listing
\* is answered 500
C11_Witness ==
    /\ phase = "failed" /\ op = "listed" /\ pc = "raised"
    /\ config.listed /\ config.prices
    /\ lastStatus = 500
    /\ Len(served) = 1
    /\ saves = <<>>

\* the retries of the listing's first request are exhausted in a run
C11_WitnessExhausted ==
    /\ phase = "failed" /\ op = "listed" /\ Exhausted
    /\ served = <<>>

----------------------------------------------------------------------------
(* C12: in get_stock_prices, between the last request of one day and the    *)
(* first request of the next there is exactly one pacing pause of           *)
(* request_interval, whether the day gave records, none, or failed.  It is  *)
(* apart from the backoff sleeps: when the day ended on the last 429 of its *)
(* retries, the backoff sleep of that attempt comes first and the pause     *)
(* follows it.  No pause is made before the first day, nor between the      *)
(* requests of one day.                                                     *)

\* the next request is the first one of a day
AtDayStart == op = "prices" /\ pc = "get" /\ FirstOfPaging

C12_OnePacingPause ==
    (op = "prices" /\ pc = "get") =>
        IF ~FirstOfPaging
        THEN OfKind(sleptSince, "pace") = 0
        ELSE IF Len(requested) = 1
        THEN sleptSince = <<>>
        ELSE /\ OfKind(sleptSince, "pace") = 1
             /\ Last(sleptSince) = Pace(request_interval)
             /\ Last(outcomes).date = current_date - 1
             /\ IF lastStatus = 429
                THEN /\ Last(outcomes).kind = "failed"
                     /\ sleptSince = <<Backoff(retry_delay * max_retries),
                                       Pace(request_interval)>>
                ELSE /\ lastStatus \in {200} \cup OtherErrorStatuses
                     /\ sleptSince = <<Pace(request_interval)>>

\* day 1 used up its retries on 429, day 2 is about to be requested
C12_Witness ==
    /\ AtDayStart
    /\ requested = <<1, 2>>
    /\ lastStatus = 429
    /\ max_retries = 2
    /\ sleptSince = <<Backoff(retry_delay * 2), Pace(request_interval)>>

\* days 1 (records), 2 (404) and 3 (no records) are over, day 4 is next
C12_WitnessEveryOutcome ==
    /\ AtDayStart
    /\ requested = <<1, 2, 3, 4>>
    /\ outcomes = <<[date |-> 1, kind |-> "records", n |-> Len(DayOneRecords)],
                    [date |-> 2, kind |-> "failed", n |-> 0],
                    [date |-> 3, kind |-> "empty", n |-> 0]>>
    /\ sleptSince = <<Pace(request_interval)>>

----------------------------------------------------------------------------
(* C13: when the environment variable of the API key is absent or empty,    *)
(* from_env raises its configuration error (ValueError) and no client       *)
(* exists; a run then fails before any HTTP request and before any          *)
(* operation on the storage.  With a key, the run gets a client with the    *)
(* default retry configuration.                                             *)

C13_NoKey == ~(EnvVar \in DOMAIN environ) \/ environ[EnvVar] = ""

C13_NoKeyNoClient ==
    InRun =>
        IF C13_NoKey
        THEN /\ phase = "failed"
             /\ pc = "raised"
             /\ exc = [type |-> "ValueError", status |-> 0]
             /\ op = "none" /\ endpoint = ""
             /\ lastStatus = 0 /\ callLog = <<>> /\ served = <<>>
             /\ requested = <<>>
             /\ saves = <<>>
             /\ storage = found
             /\ ~ENABLED Next
        ELSE /\ exc.type # "ValueError"
             /\ max_retries = DefaultMaxRetries

\* the variable is set, to the empty string; the listing and the prices were
\* asked for
C13_Witness ==
    /\ phase = "failed"
    /\ EnvVar \in DOMAIN environ /\ environ[EnvVar] = ""
    /\ config.listed /\ config.prices
    /\ exc.type = "ValueError"

C13_WitnessAbsent ==
    /\ phase = "failed"
    /\ environ = EmptyDict
    /\ exc.type = "ValueError"

----------------------------------------------------------------------------
(* C14: save returns the number of rows of the table after the write.  In   *)
(* replace mode that is the number of records passed in, whatever the table *)
(* held; in append mode on a table of p rows it is p + n, with p = 0 when   *)
(* the table did not exist.                                                 *)

\* the rows the table of a call held when the run, or the call, began
RowsBefore(t) == IF t \in DOMAIN found THEN found[t] ELSE <<>>

C14_WitnessReplace ==
    /\ op = "save"
    /\ saves[1].replace
    /\ Len(RowsBefore(saves[1].table)) = 2
    /\ saves[1].count = 1

\* two records appended to a table that did not exist
C14_WitnessNewTable ==
    /\ op = "save"
    /\ ~saves[1].replace
    /\ found = EmptyDict
    /\ saves[1].count = 2

----------------------------------------------------------------------------
(* Vocabulary of the properties about the days of get_stock_prices *)

\* the records of date d among recs, in their order
RecordsOf(recs, d) == SelectSeq(recs, LAMBDA r : r[1] = d)

\* all the records the server holds for date d, page after page
DayRecords(d) ==
    Flatten([p \in 1..Len(BarsPages(d)) |->
                Body(d, p, BarsPages(d)[p], p < Len(BarsPages(d)))])

Dates(seq) == {seq[i] : i \in 1..Len(seq)}

----------------------------------------------------------------------------
(* C15: get_stock_prices requests the days in strictly ascending order, one *)
(* day apart, from start_date and never past end_date, each day at most     *)
(* once; unless it stops early or an authentication failure ends it, it     *)
(* requests every day of the window.  The records it returns are those of   *)
(* the days that succeeded, whole days in the order of their dates.         *)

C15_DaysInOrder ==
    op = "prices" =>
        /\ Len(requested) <= Len(Window(start_date, end_date))
        /\ requested = SubSeq(Window(start_date, end_date), 1, Len(requested))
        /\ pc = "get" => current_date = Last(requested)
        /\ (pc = "returned" /\ consecutive_empty < EmptyThreshold) =>
              requested = Window(start_date, end_date)
        /\ DatesAscending(all_data)
        /\ \A i \in 1..Len(all_data) : all_data[i][1] \in Dates(requested)
        /\ \A d \in Dates(requested) :
              RecordsOf(all_data, d) \in {<<>>, DayRecords(d)}
        /\ pc = "get" => RecordsOf(all_data, current_date) = <<>>
        /\ \A i \in 1..Len(outcomes) :
              RecordsOf(all_data, outcomes[i].date) =
                  IF outcomes[i].kind = "records"
                  THEN DayRecords(outcomes[i].date) ELSE <<>>
        /\ pc = "returned" => returned = all_data

\* the window 1..4: day 1 and day 4 gave records, day 2 failed, day 3 had none
C15_Witness ==
    /\ op = "prices" /\ pc = "returned"
    /\ requested = <<1, 2, 3, 4>>
    /\ returned = DayRecords(1) \o DayRecords(4)
    /\ Len(returned) = 7

\* the window 1..2, both days gave records
C15_WitnessTwoDays ==
    /\ op = "prices" /\ pc = "returned"
    /\ returned = DayRecords(1) \o DayRecords(2)

----------------------------------------------------------------------------
(* C16: in _get_all_pages the first request carries exactly the caller's    *)
(* parameters; every later request carries them and a pagination_key equal  *)
(* to the cursor of the response just before it, never an older one; the    *)
(* caller's dict is not modified.                                           *)

\* the caller's parameters with the cursor of a response
CallerParamsWith(key) ==
    [x \in DOMAIN caller_params \cup {"pagination_key"} |->
        IF x = "pagination_key" THEN key ELSE caller_params[x]]

C16_CursorOfLastResponse ==
    pc = "get" =>
        /\ caller_params = IF op = "prices" THEN [date |-> current_date]
                                            ELSE EmptyDict
        /\ ~("pagination_key" \in DOMAIN caller_params)
        /\ IF "pagination_key" \in DOMAIN params
           THEN /\ served # <<>>
                /\ HasCursor(Last(served))
                /\ params = CallerParamsWith(Last(served).pagination_key)
                /\ params.pagination_key = Len(served)
           ELSE params = caller_params

\* the third request of day 1: it carries the cursor of the second response
C16_Witness ==
    /\ op = "prices" /\ pc = "get"
    /\ current_date = 1
    /\ Len(served) = 2
    /\ params = [date |-> 1, pagination_key |-> 2]
    /\ caller_params = [date |-> 1]

----------------------------------------------------------------------------
(* C17, as claimed: for --days n and --weeks-ago w the window has           *)
(* end_date = today - w weeks and start_date = end_date - n days; for       *)
(* n >= 0 it is not empty and, unless the extraction stops early or an      *)
(* authentication failure ends it, the n + 1 days start_date..end_date are  *)
(* requested; for n < 0 no request is made.                                 *)

C17_WindowOfRun ==
    (InRun /\ op = "prices") =>
        /\ start_date = end_date - config.days
        /\ end_date \in {t - DaysPerWeek * config.weeks_ago : t \in {Today, Today + 1}}
        /\ config.days >= 0 =>
              /\ start_date <= end_date
              /\ (pc = "returned" /\ consecutive_empty < EmptyThreshold) =>
                    Len(requested) = config.days + 1
        /\ config.days < 0 => requested = <<>>

\* C17, as the code has it: start_date and end_date come from two reads of
\* date.today(), the one for start_date first, so the window is
\* end_date - start_date = n days, or n + 1 days when the date changes between
\* the reads; every day of it is requested unless the extraction stops early
C17_WindowOfTwoReads ==
    (InRun /\ op = "prices") =>
        /\ \E t \in TodayReads :
              /\ start_date = t[1] - DaysPerWeek * config.weeks_ago - config.days
              /\ end_date = t[2] - DaysPerWeek * config.weeks_ago
        /\ end_date - start_date \in {config.days, config.days + 1}
        /\ (pc = "returned" /\ consecutive_empty < EmptyThreshold) =>
              requested = Window(start_date, end_date)

\* --days -1: the date changed between the two reads, and one day is requested
C17_Witness ==
    /\ InRun /\ op = "prices"
    /\ config.days = -1 /\ config.weeks_ago = 1
    /\ start_date = end_date
    /\ requested = <<start_date>>

----------------------------------------------------------------------------
(* C18: a day of get_stock_prices is all or nothing.  When a page of the    *)
(* day, the first or a later one, fails with an HTTPError, no record of     *)
(* that day is among the records collected, pages already fetched           *)
(* included; the day is logged as failed and counted as an empty day; the   *)
(* records of the earlier days stay as they were.                           *)

C18_State ==
    op = "prices" =>
        /\ \A d \in Dates(requested) :
              RecordsOf(all_data, d) \in {<<>>, DayRecords(d)}
        /\ \A i \in 1..Len(outcomes) :
              outcomes[i].kind = "failed" =>
                  RecordsOf(all_data, outcomes[i].date) = <<>>

C18_FailStep ==
    DayFails =>
        /\ all_data' = all_data
        /\ RecordsOf(all_data', current_date) = <<>>
        /\ Last(outcomes') = DayFailed(current_date)
        /\ consecutive_empty' = consecutive_empty + 1
        /\ pc' = "returned" => returned' = all_data

C18_DayAllOrNothing == [](C18_State) /\ [][C18_FailStep]_vars

\* days 1 and 2 gave records; the second page of day 4 was answered 500 after
\* its first page had been received
C18_Witness ==
    /\ op = "prices"
    /\ current_date = 4
    /\ outcomes # <<>> /\ Last(outcomes) = DayFailed(4)
    /\ lastStatus = 500
    /\ Len(served) = 1 /\ HasCursor(served[1])
    /\ all_data = DayRecords(1) \o DayRecords(2)

\* the third page of day 1 failed: the four records of its two first pages are
\* not kept
C18_WitnessPartial ==
    /\ op = "prices"
    /\ outcomes # <<>> /\ Last(outcomes) = DayFailed(1)
    /\ Flatten(served) = Recs(1, 1, 2) \o Recs(1, 2, 2)
    /\ all_data = <<>>

----------------------------------------------------------------------------
(* C19: when all the max_retries attempts of a _get call are answered 429,  *)
(* a backoff sleep follows every attempt, the last one included: the call   *)
(* sleeps max_retries times, retry_delay * 1 up to retry_delay *            *)
(* max_retries, retry_delay * m * (m + 1) / 2 in all, before its failure is *)
(* raised, and no request follows the last sleep.                           *)

\* the log of a call all of whose m attempts were answered 429
ExhaustedLog(m) ==
    [i \in 1..(2 * m) |->
        IF i % 2 = 1 THEN Request((i - 1) \div 2)
                     ELSE Sleep(retry_delay * (i \div 2))]

RECURSIVE SleepTotal(_)
SleepTotal(log) ==
    IF log = <<>> THEN 0
    ELSE (IF Head(log).ev = "sleep" THEN Head(log).n ELSE 0) + SleepTotal(Tail(log))

C19_SleepAfterEveryAttempt ==
    Exhausted =>
        /\ callLog = ExhaustedLog(max_retries)
        /\ Requests(callLog) = max_retries
        /\ Len(callLog) - Requests(callLog) = max_retries
        /\ Last(callLog) = Sleep(retry_delay * max_retries)
        /\ SleepTotal(callLog) =
              (retry_delay * max_retries * (max_retries + 1)) \div 2
        /\ getExit = "HTTPError"
        /\ sleptSince # <<>>
        /\ Head(sleptSince) = Backoff(retry_delay * max_retries)
        /\ op = "listed" => pc = "raised" /\ exc = [type |-> "HTTPError", status |-> 429]

\* three attempts, three sleeps of 3, 6 and 9 seconds
C19_Witness ==
    /\ Exhausted
    /\ max_retries = 3
    /\ op = "listed" /\ pc = "raised"
    /\ callLog = <<Request(0), Sleep(retry_delay * 1),
                  Request(1), Sleep(retry_delay * 2),
                  Request(2), Sleep(retry_delay * 3)>>
    /\ SleepTotal(callLog) = retry_delay * 6

----------------------------------------------------------------------------
(* C20: extract_stock_prices does not call save when get_stock_prices       *)
(* returns no record, and the table raw.stock_prices the run found stays as *)
(* it was; when at least one record is returned, save is called exactly     *)
(* once, with all the records, in replace mode.                             *)

C20_SaveUnlessEmpty ==
    (InRun /\ op = "prices") =>
        IF phase = "done" /\ returned # <<>>
        THEN /\ Cardinality(SavesOf("stock_prices")) = 1
             /\ Last(saves) = [table |-> "stock_prices", rows |-> returned,
                               replace |-> TRUE, count |-> Len(returned)]
             /\ storage["stock_prices"] = returned
        ELSE /\ SavesOf("stock_prices") = {}
             /\ "stock_prices" \in DOMAIN storage
             /\ storage["stock_prices"] = found["stock_prices"]
             /\ phase = "done" => pc = "returned" /\ returned = <<>>

\* days 3 and 4 of a run: the two records of day 4 replace the row found
C20_Witness ==
    /\ phase = "done" /\ op = "prices"
    /\ returned = DayRecords(4)
    /\ found["stock_prices"] = OldRows(1)
    /\ storage["stock_prices"] = DayRecords(4)
    /\ Len(saves) = 1

\* a run whose only day was requested and gave no record
C20_WitnessEmpty ==
    /\ phase = "done" /\ op = "prices"
    /\ requested # <<>>
    /\ lastStatus = 200
    /\ returned = <<>>
    /\ saves = <<>>
    /\ storage["stock_prices"] = OldRows(1)

====
